---------------------------- MODULE Spec2Model ----------------------------
(***************************************************************************)
(* FactorySimulator of scml.scml2020.components.simulators: the time       *)
(* indexed ledger (wallet, inventory, commands), the payment and transport *)
(* primitives, the production slot finder, the scheduler and the bookmark  *)
(* stack.                                                                  *)
(*                                                                         *)
(* numpy arrays are objects: `rollback` binds the live ledger to the       *)
(* arrays stored in the bookmark, and every in-place update (`b -= x`,     *)
(* `a[i] = x`) of a live array is then an update of that stored array too. *)
(* wallet_shared / inventory_shared / commands_shared name the bookmark    *)
(* (its position in _bookmarks, 0 = none) whose array object is the live   *)
(* one.                                                                    *)
(***************************************************************************)
EXTENDS Integers, Sequences, FiniteSets, TLC

\* ------------------------------------------------------------------ sizes
\* profile.n_steps, profile.n_lines, profile.n_products of the model
NSteps == 4
NLines == 3
NProducts == 3
\* the longest call sequence explored under Spec, SpecLedger, SpecSchedule, SpecSlots,
\* SpecScopes
MaxCalls == 5
MaxLedgerCalls == 2
MaxScheduleCalls == 3
MaxSlotCalls == 3
MaxScopeCalls == 3

NO_COMMAND == -1
ANY_STEP == -1
ANY_LINE == -1

initial_balance == 2
bankruptcy_limit == 0

Steps == 0 .. (NSteps - 1)
Lines == 0 .. (NLines - 1)
Products == 0 .. (NProducts - 1)
Processes == 0 .. (NProducts - 2)

\* profile.costs[process]: the cost of one run of a process
costs == [p \in Processes |-> p + 1]

Min2(a, b) == IF a < b THEN a ELSE b
Max2(a, b) == IF a > b THEN a ELSE b

VARIABLES
    wallet,              \* _wallet: step -> balance
    inventory,           \* _inventory: product -> step -> quantity
    commands,            \* commands: array of shape (n_lines, n_steps)
    reserved_inventory,  \* _reserved_inventory: product -> step -> quantity
    fixed_before,        \* _fixed_before
    bookmarks,           \* _bookmarks: the stack of _FullBookmark
    active_bookmark,     \* _active_bookmark: its position in _bookmarks, 0 = None
    wallet_shared,       \* the bookmark whose wallet array is the live array, 0 = none
    inventory_shared,    \* the same for the inventory array
    commands_shared,     \* the same for the commands array
    last,                \* the last call: its name, arguments and outcome
    pre,                 \* the simulator as it was when the last call started
    calls,               \* the number of calls made
    resolved             \* the ids delete_bookmark had resolved when the last call started

vars == <<wallet, inventory, commands, reserved_inventory, fixed_before, bookmarks,
          active_bookmark, wallet_shared, inventory_shared, commands_shared,
          last, pre, calls, resolved>>

\* The simulator object as one value: what every operation reads and returns.
Self ==
    [wallet |-> wallet, inventory |-> inventory, commands |-> commands,
     reserved_inventory |-> reserved_inventory, fixed_before |-> fixed_before,
     bookmarks |-> bookmarks, active_bookmark |-> active_bookmark,
     wallet_shared |-> wallet_shared, inventory_shared |-> inventory_shared,
     commands_shared |-> commands_shared]

\* FactorySimulator.__init__
Construct(initial_inventory) ==
    [wallet |-> [s \in Steps |-> initial_balance],
     inventory |-> [p \in Products |-> [s \in Steps |-> initial_inventory[p]]],
     commands |-> [l \in Lines |-> [s \in Steps |-> 0]],
     reserved_inventory |-> [p \in Products |-> [s \in Steps |-> 0]],
     fixed_before |-> 0,
     bookmarks |-> <<>>,
     active_bookmark |-> 0,
     wallet_shared |-> 0, inventory_shared |-> 0, commands_shared |-> 0]

\* A call's outcome: the simulator after it and what it returned or raised.
Ret(S, r) == [sim |-> S, result |-> r]

Raised(r) == r \in {"ValueError", "TypeError", "IndexError"}

\* ------------------------------------------------------- in-place updates
\* An in-place update of the live wallet array: the bookmark that holds the
\* same array object sees it.
WriteWallet(S, w) ==
    [S EXCEPT !.wallet = w,
              !.bookmarks = IF S.wallet_shared = 0 THEN @
                            ELSE [@ EXCEPT ![S.wallet_shared].wallet = w]]

WriteInventory(S, inv) ==
    [S EXCEPT !.inventory = inv,
              !.bookmarks = IF S.inventory_shared = 0 THEN @
                            ELSE [@ EXCEPT ![S.inventory_shared].inventory = inv]]

WriteCommands(S, cmds) ==
    [S EXCEPT !.commands = cmds,
              !.bookmarks = IF S.commands_shared = 0 THEN @
                            ELSE [@ EXCEPT ![S.commands_shared].commands = cmds]]

\* A wrong row[t:] += d: the change stops at step t.
AddAt(row, t, d) == [s \in DOMAIN row |-> IF s = t THEN row[s] + d ELSE row[s]]

\* row[t:] += d
AddFrom(row, t, d) == [s \in DOMAIN row |-> IF s >= t THEN row[s] + d ELSE row[s]]

\* row[t:].min(), for a non-empty suffix
MinFrom(row, t) ==
    CHOOSE m \in {row[s] : s \in t .. (NSteps - 1)} :
        \A s \in t .. (NSteps - 1) : m <= row[s]

\* is_bankrupt
is_bankrupt(S) == MinFrom(S.wallet, 0) < bankruptcy_limit

\* ------------------------------------------------------------ primitives
\* A wrong pay: the shortage is looked for at step t only.
pay_checking_one_step(S, payment, t, ignore_money_shortage) ==
    IF t < S.fixed_before THEN Ret(S, "ValueError")
    ELSE IF t >= NSteps THEN Ret(S, "False")
    ELSE IF ignore_money_shortage
         THEN Ret(WriteWallet(S, AddFrom(S.wallet, t, -payment)), "True")
    ELSE LET paid == AddFrom(S.wallet, t, -payment)
         IN  IF paid[t] < bankruptcy_limit
             THEN Ret(WriteWallet(S, AddFrom(paid, t, payment)), "False")
             ELSE Ret(WriteWallet(S, paid), "True")

\* A wrong pay: the failed payment is not taken back.
pay_no_restore(S, payment, t, ignore_money_shortage) ==
    IF t < S.fixed_before THEN Ret(S, "ValueError")
    ELSE IF t >= NSteps THEN Ret(S, "False")
    ELSE LET paid == AddFrom(S.wallet, t, -payment)
         IN  IF ~ignore_money_shortage /\ MinFrom(paid, t) < bankruptcy_limit
             THEN Ret(WriteWallet(S, paid), "False")
             ELSE Ret(WriteWallet(S, paid), "True")

\* pay(payment, t, ignore_money_shortage)
pay(S, payment, t, ignore_money_shortage) ==
    IF t < S.fixed_before THEN Ret(S, "ValueError")
    ELSE IF t >= NSteps THEN Ret(S, "False")
    ELSE IF ignore_money_shortage
         THEN Ret(WriteWallet(S, AddFrom(S.wallet, t, -payment)), "True")
    ELSE LET paid == AddFrom(S.wallet, t, -payment)
         IN  IF MinFrom(paid, t) < bankruptcy_limit
             THEN Ret(WriteWallet(S, AddFrom(paid, t, payment)), "False")
             ELSE Ret(WriteWallet(S, paid), "True")

\* receive(payment, t)
receive(S, payment, t) == pay(S, -payment, t, TRUE)

\* A wrong transport_to: the refused transport is not taken back.
transport_to_no_restore(S, product, quantity, t, ignore_inventory_shortage) ==
    IF t < S.fixed_before THEN Ret(S, "ValueError")
    ELSE IF t >= NSteps THEN Ret(S, "False")
    ELSE LET moved == [S.inventory EXCEPT ![product] = AddFrom(@, t, quantity)]
         IN  IF ~ignore_inventory_shortage /\ MinFrom(moved[product], t) < 0
             THEN Ret(WriteInventory(S, moved), "False")
             ELSE Ret(WriteInventory(S, moved), "True")

\* A wrong transport_to: no test of t against fixed_before, and an empty
\* suffix counts as a transport made.
transport_to_unchecked(S, product, quantity, t, ignore_inventory_shortage) ==
    IF t >= NSteps THEN Ret(S, "True")
    ELSE LET moved == [S.inventory EXCEPT ![product] = AddFrom(@, t, quantity)]
         IN  IF ~ignore_inventory_shortage /\ MinFrom(moved[product], t) < 0
             THEN Ret(S, "False")
             ELSE Ret(WriteInventory(S, moved), "True")

\* transport_to(product, quantity, t, ignore_inventory_shortage)
transport_to(S, product, quantity, t, ignore_inventory_shortage) ==
    IF t < S.fixed_before THEN Ret(S, "ValueError")
    ELSE IF t >= NSteps THEN Ret(S, "False")
    ELSE LET moved == [S.inventory EXCEPT ![product] = AddFrom(@, t, quantity)]
         IN  IF ignore_inventory_shortage THEN Ret(WriteInventory(S, moved), "True")
             ELSE IF MinFrom(moved[product], t) < 0
             THEN Ret(WriteInventory(S,
                        [moved EXCEPT ![product] = AddFrom(@, t, -quantity)]), "False")
             ELSE Ret(WriteInventory(S, moved), "True")

\* A wrong buy: the product arrives before the payment is tried.
buy_transport_first(S, product, quantity, price, t, ignore_money_shortage) ==
    IF t < S.fixed_before THEN Ret(S, "ValueError")
    ELSE LET moved == transport_to(S, product, quantity, t, TRUE)
         IN  pay(moved.sim, price * quantity, t, ignore_money_shortage)

\* buy(product, quantity, price, t, ignore_money_shortage)
buy(S, product, quantity, price, t, ignore_money_shortage) ==
    IF t < S.fixed_before THEN Ret(S, "ValueError")
    ELSE LET paid == pay(S, price * quantity, t, ignore_money_shortage)
         IN  IF paid.result # "True"
             THEN \* self._wallet = wallet: the live wallet is the copy, a new array
                  Ret([paid.sim EXCEPT !.wallet = S.wallet, !.wallet_shared = 0], "False")
             ELSE transport_to(paid.sim, product, quantity, t, TRUE)

\* A wrong sell: the payment is received before the transport is tried.
sell_paid_first(S, product, quantity, price, t, ignore_inventory_shortage) ==
    IF t < S.fixed_before THEN Ret(S, "ValueError")
    ELSE LET paid == pay(S, -price * quantity, t, TRUE)
         IN  transport_to(paid.sim, product, -quantity, t, ignore_inventory_shortage)

\* sell(product, quantity, price, t, ignore_inventory_shortage)
sell(S, product, quantity, price, t, ignore_inventory_shortage) ==
    IF t < S.fixed_before THEN Ret(S, "ValueError")
    ELSE LET moved == transport_to(S, product, -quantity, t, ignore_inventory_shortage)
         IN  IF moved.result # "True"
             THEN Ret([moved.sim EXCEPT !.inventory = S.inventory,
                                        !.inventory_shared = 0], "False")
             ELSE pay(moved.sim, -price * quantity, t, TRUE)

\* A wrong reserve: the quantity is reserved at every step from t on.
reserve_from(S, product, quantity, t) ==
    IF t >= NSteps THEN Ret(S, "IndexError")
    ELSE Ret([S EXCEPT !.reserved_inventory[product] = AddFrom(@, t, quantity)], "True")

\* reserve(product, quantity, t)
reserve(S, product, quantity, t) ==
    IF t >= NSteps THEN Ret(S, "IndexError")
    ELSE Ret([S EXCEPT !.reserved_inventory[product][t] = @ + quantity], "True")

\* inventory_at(t), 0 <= t: the last column of _inventory[:, : t + 1]
inventory_at(S, t) == [p \in Products |-> S.inventory[p][Min2(t, NSteps - 1)]]

\* .sum(axis=0) at one step: the quantities of the first n products, added
RECURSIVE SumOver(_, _)
SumOver(column, n) == IF n = 0 THEN 0 ELSE column[n - 1] + SumOver(column, n - 1)

\* total_inventory_at(t), 0 <= t: the last entry of inventory_to(t).sum(axis=0)
total_inventory_at(S, t) == SumOver(inventory_at(S, t), NProducts)

\* reserved_inventory_at(t), t a step
reserved_inventory_at(S, t) == [p \in Products |-> S.reserved_inventory[p][t]]

\* available_inventory_at(t), t a step
available_inventory_at(S, t) ==
    [p \in Products |-> inventory_at(S, t)[p] - reserved_inventory_at(S, t)[p]]

\* fix_before(t)
fix_before(S, t) == Ret([S EXCEPT !.fixed_before = t], "True")

\* --------------------------------------------------------------- bookmarks
\* What bookmark() copies. `taken` and `rollbacks` are history fields of the
\* model (the ledger when the bookmark was taken, the rollbacks made to it);
\* the program never reads them.
FullBookmark(S) ==
    [id |-> Len(S.bookmarks),
     wallet |-> S.wallet, inventory |-> S.inventory, commands |-> S.commands,
     taken |-> [wallet |-> S.wallet, inventory |-> S.inventory, commands |-> S.commands],
     rollbacks |-> 0]

\* A wrong bookmark: it keeps the live arrays instead of copies of them.
bookmark_shallow(S) ==
    [sim |-> [S EXCEPT !.bookmarks = Append(@, FullBookmark(S)),
                       !.active_bookmark = Len(S.bookmarks) + 1,
                       !.wallet_shared = Len(S.bookmarks) + 1,
                       !.inventory_shared = Len(S.bookmarks) + 1,
                       !.commands_shared = Len(S.bookmarks) + 1],
     result |-> "True", id |-> Len(S.bookmarks)]

\* bookmark(): returns the id of the new bookmark
bookmark(S) ==
    [sim |-> [S EXCEPT !.bookmarks = Append(@, FullBookmark(S)),
                       !.active_bookmark = Len(S.bookmarks) + 1],
     result |-> "True", id |-> Len(S.bookmarks)]

\* A wrong test: any id passes once a bookmark is active.
NotActive_any_id(S, bookmark_id) == S.active_bookmark = 0

\* `self._active_bookmark is None or self._active_bookmark.id != bookmark_id`
NotActive(S, bookmark_id) ==
    \/ S.active_bookmark = 0
    \/ S.bookmarks[S.active_bookmark].id # bookmark_id

\* A wrong rollback: the reservations and the fixed history are taken back too.
rollback_clearing(S, bookmark_id) ==
    IF NotActive(S, bookmark_id) THEN Ret(S, "ValueError")
    ELSE LET b == S.bookmarks[S.active_bookmark]
         IN  Ret([S EXCEPT !.wallet = b.wallet,
                           !.inventory = b.inventory,
                           !.commands = b.commands,
                           !.reserved_inventory = [p \in Products |-> [s \in Steps |-> 0]],
                           !.fixed_before = 0,
                           !.wallet_shared = S.active_bookmark,
                           !.inventory_shared = S.active_bookmark,
                           !.commands_shared = S.active_bookmark,
                           !.bookmarks[S.active_bookmark].rollbacks = @ + 1],
                 "True")

\* rollback(bookmark_id): the live ledger becomes the bookmark's arrays
rollback(S, bookmark_id) ==
    IF NotActive(S, bookmark_id) THEN Ret(S, "ValueError")
    ELSE LET b == S.bookmarks[S.active_bookmark]
         IN  Ret([S EXCEPT !.wallet = b.wallet,
                           !.inventory = b.inventory,
                           !.commands = b.commands,
                           !.wallet_shared = S.active_bookmark,
                           !.inventory_shared = S.active_bookmark,
                           !.commands_shared = S.active_bookmark,
                           !.bookmarks[S.active_bookmark].rollbacks = @ + 1],
                 "True")

\* An array held by a bookmark that leaves the stack is held by the ledger alone.
Unshare(shared, depth) == IF shared > depth THEN 0 ELSE shared

\* A wrong delete_bookmark: it restores the ledger as it drops the bookmark.
delete_bookmark_restoring(S, bookmark_id) ==
    IF NotActive(S, bookmark_id) THEN Ret(S, "ValueError")
    ELSE LET rest == SubSeq(S.bookmarks, 1, Len(S.bookmarks) - 1)
             b == S.bookmarks[S.active_bookmark]
         IN  Ret([S EXCEPT !.bookmarks = rest,
                           !.active_bookmark = Len(rest),
                           !.wallet = b.wallet,
                           !.inventory = b.inventory,
                           !.commands = b.commands,
                           !.wallet_shared = 0,
                           !.inventory_shared = 0,
                           !.commands_shared = 0],
                 "True")

\* delete_bookmark(bookmark_id)
delete_bookmark(S, bookmark_id) ==
    IF NotActive(S, bookmark_id) THEN Ret(S, "ValueError")
    ELSE LET rest == SubSeq(S.bookmarks, 1, Len(S.bookmarks) - 1)
         IN  Ret([S EXCEPT !.bookmarks = rest,
                           !.active_bookmark = Len(rest),
                           !.wallet_shared = Unshare(@, Len(rest)),
                           !.inventory_shared = Unshare(@, Len(rest)),
                           !.commands_shared = Unshare(@, Len(rest))],
                 "True")

\* ------------------------------------------------------------- slot finder
\* seq[start:] of Python
PyFrom(seq, start) ==
    LET from == IF start < 0 THEN Max2(Len(seq) + start, 0) ELSE Min2(start, Len(seq))
    IN  SubSeq(seq, from + 1, Len(seq))

\* seq[:n] of Python, n >= 0
PyTo(seq, n) == SubSeq(seq, 1, Min2(n, Len(seq)))

\* The step argument: <<t>> is the integer t, <<a, b>> the tuple (a, b).
IsTuple(step) == Len(step) = 2

\* lines 878-886: the half-open range the query looks at
StepRange(S, step) ==
    LET current_step == S.fixed_before + 1
        given == IF ~IsTuple(step)
                 THEN IF step[1] < 0 THEN <<current_step, NSteps>>
                      ELSE <<step[1], step[1] + 1>>
                 ELSE <<step[1], step[2] + 1>>
    IN  <<Max2(current_step, given[1]), given[2]>>

\* `commands >= NO_COMMAND` with override, `commands == NO_COMMAND` without
Candidate(command, override) ==
    IF override THEN command >= NO_COMMAND ELSE command = NO_COMMAND

\* np.nonzero(self.commands[lo:hi, :] ...): the slice cuts the first axis of
\* commands, of size n_lines, and the cells come in row-major order; each is
\* <<first index, second index>>.
NonzeroRows(S, lo, hi, override) ==
    LET top == Min2(hi, NLines)
        n == IF top > lo THEN (top - lo) * NSteps ELSE 0
        cell(k) == <<lo + ((k - 1) \div NSteps), (k - 1) % NSteps>>
        hit(c) == Candidate(S.commands[c[1]][c[2]], override)
    IN  SelectSeq([k \in 1 .. n |-> cell(k)], hit)

\* np.nonzero(self.commands[lo:hi, line] ...)[0]: the first indices only
NonzeroColumn(S, lo, hi, line, override) ==
    LET top == Min2(hi, NLines)
        n == IF top > lo THEN top - lo ELSE 0
        hit(r) == Candidate(S.commands[r][line], override)
    IN  SelectSeq([k \in 1 .. n |-> lo + k - 1], hit)

\* available_for_production(repeats, step, line, override, method): the two
\* sequences it returns, or the error it raises
available_for_production(S, repeats, step, line, override, method) ==
    LET range == StepRange(S, step)
        lo == range[1]
        hi == range[2]
        none == [steps |-> <<>>, lines |-> <<>>, result |-> "ok"]
    IN  IF hi <= lo THEN none
        ELSE IF line >= NSteps THEN [none EXCEPT !.result = "IndexError"]
        ELSE LET cells == NonzeroRows(S, lo, hi, override)
                 steps == IF line < 0 THEN [k \in 1 .. Len(cells) |-> cells[k][1]]
                          ELSE NonzeroColumn(S, lo, hi, line, override)
                 lines == IF line < 0 THEN [k \in 1 .. Len(cells) |-> cells[k][2]]
                          ELSE <<line>>
                 possible == Min2(repeats, Len(steps))
             IN  IF possible < repeats THEN none
                 ELSE IF method = "latest"
                 THEN [steps |-> PyFrom(steps, 1 - possible),
                       lines |-> PyFrom(lines, 1 - possible), result |-> "ok"]
                 ELSE IF method = "all"
                 THEN [steps |-> steps, lines |-> lines, result |-> "ok"]
                 ELSE [steps |-> PyTo(steps, possible),
                       lines |-> PyTo(lines, possible), result |-> "ok"]

\* A wrong query: it orders process 1 at the slots it found.
available_for_production_marking(S, repeats, step, line, override, method) ==
    LET found == available_for_production(S, repeats, step, line, override, method)
        n == Min2(Len(found.steps), Len(found.lines))
    IN  [sim |-> WriteCommands(S, [l \in Lines |-> [s \in Steps |->
                    IF \E k \in 1 .. n : found.steps[k] = l /\ found.lines[k] = s
                    THEN 1 ELSE S.commands[l][s]]]),
         result |-> found.result, steps |-> found.steps, lines |-> found.lines]

\* A call of available_for_production on the simulator: the method reads
\* self and assigns nothing of it (`steps += step[0]` updates its own array).
available_for_production_on(S, repeats, step, line, override, method) ==
    LET found == available_for_production(S, repeats, step, line, override, method)
    IN  [sim |-> S, result |-> found.result, steps |-> found.steps, lines |-> found.lines]

\* ---------------------------------------------------------------- scheduler
\* order_production(process, steps, lines): self.commands[steps, lines] = process
order_production(S, process, steps, lines) ==
    IF Len(steps) = 0 THEN Ret(S, "None")
    ELSE IF \E k \in 1 .. Len(steps) : steps[k] >= NLines \/ lines[k] >= NSteps
    THEN Ret(S, "IndexError")
    ELSE Ret(WriteCommands(S,
                [l \in Lines |-> [s \in Steps |->
                    IF \E k \in 1 .. Len(steps) : steps[k] = l /\ lines[k] = s
                    THEN process ELSE S.commands[l][s]]]),
             "None")

\* A wrong turn of the loop: the unit made is stored one step later.
ScheduleOne_stored_later(acc, process, cost, s, l, ignore_inventory_shortage, ignore_money_shortage) ==
    LET S == acc.sim
    IN  IF acc.raised THEN acc
        ELSE IF ~ignore_inventory_shortage /\ s >= NSteps THEN [acc EXCEPT !.raised = TRUE]
        ELSE IF ~ignore_inventory_shortage /\ S.inventory[process][s] < 1 THEN acc
        ELSE IF ~ignore_money_shortage /\ s >= NSteps THEN [acc EXCEPT !.raised = TRUE]
        ELSE IF ~ignore_money_shortage /\ S.wallet[s] < cost THEN acc
        ELSE LET marked == WriteCommands(S, [S.commands EXCEPT ![s][l] = process])
             IN  IF s + 1 >= NSteps
                 THEN [acc EXCEPT !.sim = marked, !.scheduled = @ + 1, !.raised = TRUE]
                 ELSE LET made == WriteInventory(marked,
                                      [marked.inventory EXCEPT ![process][s] = @ - 1,
                                                               ![process + 1][s + 1] = @ + 1])
                          charged == WriteWallet(made,
                                      [made.wallet EXCEPT ![s] = @ - cost])
                      IN  [acc EXCEPT !.sim = charged, !.scheduled = @ + 1]

\* A wrong turn of the loop: the unit is committed without the two checks.
ScheduleOne_unchecked(acc, process, cost, s, l, ignore_inventory_shortage, ignore_money_shortage) ==
    LET S == acc.sim
    IN  IF acc.raised THEN acc
        ELSE IF s >= NSteps THEN [acc EXCEPT !.raised = TRUE]
        ELSE LET marked == WriteCommands(S, [S.commands EXCEPT ![s][l] = process])
                 made == WriteInventory(marked,
                             [marked.inventory EXCEPT ![process][s] = @ - 1,
                                                      ![process + 1][s] = @ + 1])
                 charged == WriteWallet(made, [made.wallet EXCEPT ![s] = @ - cost])
             IN  [acc EXCEPT !.sim = charged, !.scheduled = @ + 1]

\* One turn of the loop of schedule (lines 965-977) for the pair (s, l); acc is
\* the simulator, the count `scheduled` and the error raised so far.
ScheduleOne(acc, process, cost, s, l, ignore_inventory_shortage, ignore_money_shortage) ==
    LET S == acc.sim
    IN  IF acc.raised THEN acc
        ELSE IF ~ignore_inventory_shortage /\ s >= NSteps THEN [acc EXCEPT !.raised = TRUE]
        ELSE IF ~ignore_inventory_shortage /\ S.inventory[process][s] < 1 THEN acc
        ELSE IF ~ignore_money_shortage /\ s >= NSteps THEN [acc EXCEPT !.raised = TRUE]
        ELSE IF ~ignore_money_shortage /\ S.wallet[s] < cost THEN acc
        ELSE LET marked == WriteCommands(S, [S.commands EXCEPT ![s][l] = process])
             IN  IF s >= NSteps
                 THEN [acc EXCEPT !.sim = marked, !.scheduled = @ + 1, !.raised = TRUE]
                 ELSE LET made == WriteInventory(marked,
                                      [marked.inventory EXCEPT ![process][s] = @ - 1,
                                                               ![process + 1][s] = @ + 1])
                          charged == WriteWallet(made,
                                      [made.wallet EXCEPT ![s] = @ - cost])
                      IN  [acc EXCEPT !.sim = charged, !.scheduled = @ + 1]

\* for s, l in zip(steps, lines): the first n pairs
RECURSIVE ScheduleLoop(_, _, _, _, _, _, _, _)
ScheduleLoop(acc, n, process, cost, steps, lines, ignore_inventory_shortage, ignore_money_shortage) ==
    IF n = 0 THEN acc
    ELSE ScheduleOne(
            ScheduleLoop(acc, n - 1, process, cost, steps, lines,
                         ignore_inventory_shortage, ignore_money_shortage),
            process, cost, steps[n], lines[n],
            ignore_inventory_shortage, ignore_money_shortage)

\* transaction(simulator): the bookmark taken on entry, deleted on a normal
\* exit (a `return` in the body included); an error in the body skips the exit.
transaction_enter(S) == bookmark(S)
transaction_exit(S, bookmark_id) == delete_bookmark(S, bookmark_id)

\* A wrong failure path: it leaves without the rollback.
leave_failed_dirty(S, bookmark_id) == Ret(transaction_exit(S, bookmark_id).sim, "False")

\* `self.rollback(bookmark); return False` inside the transaction
leave_failed(S, bookmark_id) ==
    Ret(transaction_exit(rollback(S, bookmark_id).sim, bookmark_id).sim, "False")

\* np.any(self._wallet[t:] < cost), t an integer
AnyBelow(S, t, cost) ==
    LET from == IF t < 0 THEN Max2(NSteps + t, 0) ELSE Min2(t, NSteps)
    IN  \E s \in from .. (NSteps - 1) : S.wallet[s] < cost

\* schedule(process, quantity, t, line, override, method,
\*          ignore_inventory_shortage, ignore_money_shortage)
schedule(S, process, quantity, t, line, override, ignore_inventory_shortage, ignore_money_shortage) ==
    LET found == available_for_production(S, quantity, t, line, override, "all")
        cost == costs[process]
    IN  IF found.result # "ok" THEN Ret(S, found.result)
        ELSE IF Len(found.steps) < quantity THEN Ret(S, "False")
        ELSE IF ~ignore_money_shortage /\ IsTuple(t) THEN Ret(S, "TypeError")
        ELSE IF ~ignore_money_shortage /\ AnyBelow(S, t[1], cost) THEN Ret(S, "False")
        ELSE LET opened == transaction_enter(S)
             IN  IF IsTuple(t) THEN Ret(opened.sim, "TypeError")
                 ELSE LET paid == pay(opened.sim, cost, t[1], TRUE)
                      IN  IF Raised(paid.result) THEN Ret(paid.sim, paid.result)
                          ELSE IF paid.result # "True"
                          THEN leave_failed(paid.sim, opened.id)
                          ELSE LET n == Min2(Len(found.steps), Len(found.lines))
                                   done == ScheduleLoop(
                                       [sim |-> paid.sim, scheduled |-> 0, raised |-> FALSE],
                                       n, process, cost, found.steps, found.lines,
                                       ignore_inventory_shortage, ignore_money_shortage)
                               IN  IF done.raised THEN Ret(done.sim, "IndexError")
                                   ELSE IF done.scheduled < quantity
                                   THEN leave_failed(done.sim, opened.id)
                                   ELSE Ret(transaction_exit(done.sim, opened.id).sim, "True")

\* A wrong set_state: the steps after t are set to the given values, not
\* shifted.
set_state_flat(S, t, inventory_now, wallet_now, commands_now) ==
    IF t >= NSteps THEN Ret(S, "IndexError")
    ELSE LET inv == [p \in Products |-> [s \in Steps |->
                        IF s >= t THEN inventory_now[p] ELSE S.inventory[p][s]]]
             S1 == WriteInventory(S, inv)
             S2 == WriteWallet(S1, [s \in Steps |->
                                      IF s >= t THEN wallet_now ELSE S1.wallet[s]])
             S3 == WriteCommands(S2, [l \in Lines |->
                                        [S2.commands[l] EXCEPT ![t] = commands_now[l]]])
         IN  Ret(fix_before(S3, t).sim, "None")

\* set_state(t, inventory, wallet, commands)
set_state(S, t, inventory_now, wallet_now, commands_now) ==
    IF t >= NSteps THEN Ret(S, "IndexError")
    ELSE LET inv == [p \in Products |->
                        AddFrom(S.inventory[p], t, inventory_now[p] - S.inventory[p][t])]
             S1 == WriteInventory(S, inv)
             S2 == WriteWallet(S1, AddFrom(S1.wallet, t, wallet_now - S1.wallet[t]))
             S3 == WriteCommands(S2, [l \in Lines |->
                                        [S2.commands[l] EXCEPT ![t] = commands_now[l]]])
         IN  Ret(fix_before(S3, t).sim, "None")

\* ------------------------------------------------------------------ scopes
\* temporary_transaction(simulator): the bookmark taken before the `yield`,
\* and the rollback and deletion made after it when the body did not raise.
temporary_transaction_enter(S) == bookmark(S)

temporary_transaction_exit(S, bookmark_id) ==
    LET rolled == rollback(S, bookmark_id)
    IN  IF Raised(rolled.result) THEN rolled
        ELSE delete_bookmark(rolled.sim, bookmark_id)

\* The body of a `with` block is a sequence of calls, each a record [op, t]:
\* a pay of 1 at step t, a schedule of one unit of process 0 at step t, a
\* reserve of one unit of product 0 at step t, a fix_before(t), a
\* rollback to the bookmark the innermost open block was given, the start of
\* a nested `with temporary_transaction` or `with transaction` block, or the
\* end of the innermost open block. `open` is the stack of the open blocks,
\* each with the bookmark it was given.
DoCall(S, c, open) ==
    CASE c.op = "pay" -> pay(S, 1, c.t, TRUE)
      [] c.op = "schedule" -> schedule(S, 0, 1, <<c.t>>, ANY_LINE, TRUE, TRUE, TRUE)
      [] c.op = "reserve" -> reserve(S, 0, 1, c.t)
      [] c.op = "fix_before" -> fix_before(S, c.t)
      [] c.op = "rollback" -> rollback(S, open[Len(open)].id)
      [] c.op = "with temporary_transaction" -> Ret(temporary_transaction_enter(S).sim, "None")
      [] c.op = "with transaction" -> Ret(transaction_enter(S).sim, "None")
      [] c.op = "end with" ->
            IF open[Len(open)].temporary
            THEN temporary_transaction_exit(S, open[Len(open)].id)
            ELSE transaction_exit(S, open[Len(open)].id)

\* The blocks open after the call c made on S.
OpenAfter(S, c, open) ==
    CASE c.op = "with temporary_transaction" ->
            Append(open, [id |-> temporary_transaction_enter(S).id, temporary |-> TRUE])
      [] c.op = "with transaction" ->
            Append(open, [id |-> transaction_enter(S).id, temporary |-> FALSE])
      [] c.op = "end with" -> SubSeq(open, 1, Len(open) - 1)
      [] OTHER -> open

\* The calls of a body in order. A call that raises ends the run: the error
\* is thrown at the `yield` of every open block, which no try guards, so no
\* block runs the code after its `yield`. A call that returns False does not
\* end it.
RECURSIVE RunBody(_, _, _)
RunBody(S, body, open) ==
    IF body = <<>> THEN Ret(S, "None")
    ELSE LET first == DoCall(S, Head(body), open)
         IN  IF Raised(first.result) THEN first
             ELSE RunBody(first.sim, Tail(body), OpenAfter(S, Head(body), open))

With(op) == [op |-> op, t |-> 0]

\* with temporary_transaction(simulator) as bookmark: body
temporary_transaction(S, body) ==
    RunBody(S, <<With("with temporary_transaction")>> \o body \o <<With("end with")>>, <<>>)

\* with transaction(simulator) as bookmark: body
transaction(S, body) ==
    RunBody(S, <<With("with transaction")>> \o body \o <<With("end with")>>, <<>>)

\* ------------------------------------------------------------------ inputs
Times == 0 .. NSteps
Payments == {1, 2}
Quantities == {1, -1, -2}
InitialInventories ==
    {[p \in Products |-> 0], [p \in Products |-> IF p = 0 THEN 2 ELSE 0]}
\* the state set_state is given: one unit of every product, a balance of 1
StockNow == [p \in Products |-> 1]
Idle == [l \in Lines |-> NO_COMMAND]

\* ------------------------------------------------------------------ calls
\* One call: the simulator becomes r.sim, `last` records the call and its
\* outcome, `pre` the simulator the call started from.
Call(r, call) ==
    /\ \E out \in {r} :
        /\ wallet' = out.sim.wallet
        /\ inventory' = out.sim.inventory
        /\ commands' = out.sim.commands
        /\ reserved_inventory' = out.sim.reserved_inventory
        /\ fixed_before' = out.sim.fixed_before
        /\ bookmarks' = out.sim.bookmarks
        /\ active_bookmark' = out.sim.active_bookmark
        /\ wallet_shared' = out.sim.wallet_shared
        /\ inventory_shared' = out.sim.inventory_shared
        /\ commands_shared' = out.sim.commands_shared
        /\ last' = [call EXCEPT !.result = out.result]
    /\ pre' = Self
    /\ calls' = calls + 1
    /\ resolved' = IF last.op = "delete_bookmark" /\ last.result = "True"
                   THEN resolved \cup {last.bookmark_id}
                   ELSE resolved

Pay(payment, t, ignore_money_shortage) ==
    Call(pay(Self, payment, t, ignore_money_shortage),
         [op |-> "pay", result |-> "", payment |-> payment, t |-> t,
          ignore_money_shortage |-> ignore_money_shortage])

Receive(payment, t) ==
    Call(receive(Self, payment, t),
         [op |-> "receive", result |-> "", payment |-> payment, t |-> t])

TransportTo(product, quantity, t, ignore_inventory_shortage) ==
    Call(transport_to(Self, product, quantity, t, ignore_inventory_shortage),
         [op |-> "transport_to", result |-> "", product |-> product,
          quantity |-> quantity, t |-> t,
          ignore_inventory_shortage |-> ignore_inventory_shortage])

Buy(product, quantity, price, t, ignore_money_shortage) ==
    Call(buy(Self, product, quantity, price, t, ignore_money_shortage),
         [op |-> "buy", result |-> "", product |-> product, quantity |-> quantity,
          price |-> price, t |-> t, ignore_money_shortage |-> ignore_money_shortage])

Sell(product, quantity, price, t, ignore_inventory_shortage) ==
    Call(sell(Self, product, quantity, price, t, ignore_inventory_shortage),
         [op |-> "sell", result |-> "", product |-> product, quantity |-> quantity,
          price |-> price, t |-> t,
          ignore_inventory_shortage |-> ignore_inventory_shortage])

Reserve(product, quantity, t) ==
    Call(reserve(Self, product, quantity, t),
         [op |-> "reserve", result |-> "", product |-> product,
          quantity |-> quantity, t |-> t])

FixBefore(t) ==
    Call(fix_before(Self, t), [op |-> "fix_before", result |-> "", t |-> t])

SetState(t, inventory_now, wallet_now, commands_now) ==
    Call(set_state(Self, t, inventory_now, wallet_now, commands_now),
         [op |-> "set_state", result |-> "", t |-> t, inventory |-> inventory_now,
          wallet |-> wallet_now, commands |-> commands_now])

OrderProduction(process, steps, lines) ==
    Call(order_production(Self, process, steps, lines),
         [op |-> "order_production", result |-> "", process |-> process,
          steps |-> steps, lines |-> lines])

Schedule(process, quantity, t, line, override, ignore_inventory_shortage, ignore_money_shortage) ==
    Call(schedule(Self, process, quantity, t, line, override,
                  ignore_inventory_shortage, ignore_money_shortage),
         [op |-> "schedule", result |-> "", process |-> process,
          quantity |-> quantity, t |-> t, line |-> line, override |-> override,
          ignore_inventory_shortage |-> ignore_inventory_shortage,
          ignore_money_shortage |-> ignore_money_shortage])

AvailableForProduction(repeats, step, line, override, method) ==
    LET out == available_for_production_on(Self, repeats, step, line, override, method)
    IN  Call(out,
             [op |-> "available_for_production", result |-> "", repeats |-> repeats,
              step |-> step, line |-> line, override |-> override, method |-> method,
              steps |-> out.steps, lines |-> out.lines])

TemporaryTransaction(body) ==
    Call(temporary_transaction(Self, body),
         [op |-> "temporary_transaction", result |-> "", body |-> body])

Transaction(body) ==
    Call(transaction(Self, body),
         [op |-> "transaction", result |-> "", body |-> body])

Bookmark ==
    Call(bookmark(Self), [op |-> "bookmark", result |-> ""])

Rollback(bookmark_id) ==
    Call(rollback(Self, bookmark_id),
         [op |-> "rollback", result |-> "", bookmark_id |-> bookmark_id])

DeleteBookmark(bookmark_id) ==
    Call(delete_bookmark(Self, bookmark_id),
         [op |-> "delete_bookmark", result |-> "", bookmark_id |-> bookmark_id])

Init ==
    \E initial_inventory \in InitialInventories :
        LET S == Construct(initial_inventory)
        IN  /\ wallet = S.wallet
            /\ inventory = S.inventory
            /\ commands = S.commands
            /\ reserved_inventory = S.reserved_inventory
            /\ fixed_before = S.fixed_before
            /\ bookmarks = S.bookmarks
            /\ active_bookmark = S.active_bookmark
            /\ wallet_shared = S.wallet_shared
            /\ inventory_shared = S.inventory_shared
            /\ commands_shared = S.commands_shared
            /\ last = [op |-> "init", result |-> "None"]
            /\ pre = S
            /\ calls = 0
            /\ resolved = {}

\* The call budget of a specification.
Within(n) == calls < n

\* Spec: the bookmark stack under every kind of ledger operation, each with
\* the arguments that take one of its paths (in place, rebinding, raising).
Next ==
    \/ Within(MaxCalls) /\ Bookmark
    \/ Within(MaxCalls) /\ \E id \in 0 .. Len(bookmarks) :
          Rollback(id)
    \/ Within(MaxCalls) /\ \E id \in 0 .. Len(bookmarks) :
          DeleteBookmark(id)
    \/ Within(MaxCalls) /\ Pay(1, 1, TRUE)
    \/ Within(MaxCalls) /\ Receive(1, 0)
    \/ Within(MaxCalls) /\ TransportTo(0, 1, 1, TRUE)
    \/ Within(MaxCalls) /\ Buy(0, 1, 3, 0, FALSE)
    \/ Within(MaxCalls) /\ Sell(1, 1, 1, 0, FALSE)
    \/ Within(MaxCalls) /\ OrderProduction(NO_COMMAND, <<1>>, <<0>>)
    \/ Within(MaxCalls) /\ SetState(1, StockNow, 1, Idle)
    \/ Within(MaxCalls) /\ \E t \in {<<1>>, <<ANY_STEP>>}, i \in BOOLEAN :
          Schedule(1, 1, t, ANY_LINE, TRUE, i, TRUE)

Spec == Init /\ [][Next]_vars

\* SpecLedger: the payment and transport primitives and the fixed history,
\* over every step, both shortage modes and enough and too little money.
NextLedger ==
    \/ Within(MaxLedgerCalls) /\ \E payment \in Payments, t \in Times, i \in BOOLEAN :
          Pay(payment, t, i)
    \/ Within(MaxLedgerCalls) /\ \E t \in {0, 1} :
          Receive(1, t)
    \/ Within(MaxLedgerCalls) /\ \E quantity \in Quantities, t \in Times, i \in BOOLEAN :
          TransportTo(0, quantity, t, i)
    \/ Within(MaxLedgerCalls) /\ \E price \in {1, 3}, t \in {0, 1, NSteps}, i \in BOOLEAN :
          Buy(0, 1, price, t, i)
    \/ Within(MaxLedgerCalls) /\ \E t \in {0, 1, NSteps}, i \in BOOLEAN :
          Sell(0, 1, 1, t, i)
    \/ Within(MaxLedgerCalls) /\ \E t \in Times :
          Reserve(0, 1, t)
    \/ Within(MaxLedgerCalls) /\ \E t \in Times :
          FixBefore(t)
    \/ Within(MaxLedgerCalls) /\ \E t \in {0, 1, NSteps} :
          SetState(t, StockNow, 1, Idle)
    \/ Within(MaxLedgerCalls) /\ \E s \in Lines :
          OrderProduction(1, <<s>>, <<0>>)
    \/ Within(MaxLedgerCalls) /\ \E t \in {0, 1, NSteps} :
          Schedule(0, 1, <<t>>, ANY_LINE, TRUE, TRUE, TRUE)

SpecLedger == Init /\ [][NextLedger]_vars

\* SpecSchedule: one schedule call, with every combination of its arguments,
\* from the ledgers a short preparation reaches.
ScheduleSteps == {<<ANY_STEP>>, <<0>>, <<1>>, <<NSteps>>, <<1, 2>>}
ScheduleLines == {ANY_LINE, 0, NSteps}

\* up to the schedule call, which ends the run
Ready == calls < MaxScheduleCalls /\ last.op # "schedule"

NextSchedule ==
    \/ Ready /\ Bookmark
    \/ Ready /\ Rollback(0)
    \/ Ready /\ FixBefore(1)
    \/ Ready /\ Pay(3, 1, TRUE)
    \/ Ready /\ SetState(1, StockNow, 1, Idle)
    \/ Ready /\ OrderProduction(NO_COMMAND, <<1>>, <<0>>)
    \/ Ready /\ \E process \in Processes, quantity \in 1 .. 2, t \in ScheduleSteps,
                  line \in ScheduleLines, override \in BOOLEAN,
                  i \in BOOLEAN, m \in BOOLEAN :
          Schedule(process, quantity, t, line, override, i, m)

SpecSchedule == Init /\ [][NextSchedule]_vars

\* SpecSlots: one available_for_production query, with every combination of
\* its arguments, on the ledgers a short preparation reaches.
SlotSteps == {<<ANY_STEP>>, <<1>>, <<2>>, <<NSteps - 1>>, <<1, 2>>, <<2, 1>>}
SlotLines == {ANY_LINE, 0, NLines - 1, NSteps}
Repeats == {1, 2, NLines + 1}
Methods == {"latest", "earliest", "all"}

\* up to the query, which ends the run
Asking == calls < MaxSlotCalls /\ last.op # "available_for_production"

NextSlots ==
    \/ Asking /\ Bookmark
    \/ Asking /\ FixBefore(1)
    \/ Asking /\ SetState(1, StockNow, 1, Idle)
    \/ Asking /\ \E a \in 1 .. 2, b \in 0 .. 1 :
          OrderProduction(NO_COMMAND, <<a>>, <<b>>)
    \/ Asking /\ \E repeats \in Repeats, step \in SlotSteps, line \in SlotLines,
                   override \in BOOLEAN, method \in Methods :
          AvailableForProduction(repeats, step, line, override, method)

SpecSlots == Init /\ [][NextSlots]_vars

\* SpecScopes: one `with` block, with every body of up to two calls, on the
\* simulators a short preparation reaches.
PlainCalls ==
    {[op |-> o, t |-> t] : o \in {"pay", "schedule"}, t \in {1, ANY_STEP}}
        \cup {[op |-> o, t |-> 1] : o \in {"reserve", "fix_before"}}
        \cup {With("rollback")}
InnerBodies == {<<>>} \cup {<<c>> : c \in PlainCalls}
\* a call, or a nested block with its body
Statements ==
    {<<c>> : c \in PlainCalls}
        \cup {<<With(o)>> \o b \o <<With("end with")>> :
                 o \in {"with temporary_transaction", "with transaction"}, b \in InnerBodies}
Bodies == {<<>>} \cup Statements \cup {c \o d : c \in Statements, d \in Statements}

\* up to the block, which ends the run
Scoping == calls < MaxScopeCalls /\ last.op \notin {"transaction", "temporary_transaction"}

NextScopes ==
    \/ Scoping /\ Bookmark
    \/ Scoping /\ Rollback(0)
    \/ Scoping /\ Pay(1, 1, TRUE)
    \/ Scoping /\ Reserve(0, 1, 1)
    \/ Scoping /\ FixBefore(1)
    \/ Scoping /\ \E t \in {<<1>>, <<ANY_STEP>>} :
          Schedule(0, 1, t, ANY_LINE, TRUE, TRUE, TRUE)
    \/ Scoping /\ \E body \in Bodies :
          TemporaryTransaction(body)
    \/ Scoping /\ \E body \in Bodies :
          Transaction(body)

SpecScopes == Init /\ [][NextScopes]_vars

\* ----------------------------------------------------------------- claims
\* The three arrays a bookmark covers.
Ledger(S) == <<S.wallet, S.inventory, S.commands>>

Returned(op, result) == last.op = op /\ last.result = result

\* C1: the first rollback(id) after id = bookmark() leaves wallet, inventory
\* and commands, cell by cell, as they were when bookmark() was called,
\* whatever was done in between.
C1_FirstRollbackRestores ==
    (Returned("rollback", "True") /\ bookmarks[active_bookmark].rollbacks = 1)
    => Ledger(Self) = Ledger(bookmarks[active_bookmark].taken)

\* A first rollback that undoes a change of all three arrays.
C1_Witness ==
    /\ Returned("rollback", "True")
    /\ bookmarks[active_bookmark].rollbacks = 1
    /\ pre.wallet # wallet
    /\ pre.inventory # inventory
    /\ pre.commands # commands

\* C2: a stored snapshot never changes with the live ledger, so every
\* rollback(id), the second one after further mutations included, leaves
\* wallet, inventory and commands as they were when bookmark() was called.
C2_EveryRollbackRestores ==
    Returned("rollback", "True")
    => Ledger(Self) = Ledger(bookmarks[active_bookmark].taken)

\* The units the loop of schedule commits for the call c made on S, when the
\* call gets as far as the loop.
UnitsCommitted(S, c) ==
    LET found == available_for_production(S, c.quantity, c.t, c.line, c.override, "all")
        paid == pay(transaction_enter(S).sim, costs[c.process], c.t[1], TRUE)
    IN  IF IsTuple(c.t) \/ found.result # "ok" \/ Len(found.steps) < c.quantity
           \/ paid.result # "True"
        THEN 0
        ELSE ScheduleLoop([sim |-> paid.sim, scheduled |-> 0, raised |-> FALSE],
                          Min2(Len(found.steps), Len(found.lines)), c.process,
                          costs[c.process], found.steps, found.lines,
                          c.ignore_inventory_shortage, c.ignore_money_shortage).scheduled

\* C3: a schedule call that returns False leaves wallet, inventory and
\* commands as they were before the call, and the bookmark stack as deep.
C3_FailedScheduleChangesNothing ==
    Returned("schedule", "False")
    => /\ Ledger(Self) = Ledger(pre)
       /\ Len(bookmarks) = Len(pre.bookmarks)

\* A schedule call that fails after it has committed a unit.
C3_Witness ==
    /\ Returned("schedule", "False")
    /\ UnitsCommitted(pre, last) >= 1

\* The cells of commands that hold the process.
CellsOf(cmds, process) == {c \in Lines \X Steps : cmds[c[1]][c[2]] = process}

\* C4: on a ledger with no cell holding the process, a schedule call that
\* succeeds leaves exactly `quantity` cells holding it, with as many units of
\* the input product taken and of the output product made; any other call
\* leaves the ledger unchanged.
C4_ExactlyQuantityCells ==
    (last.op = "schedule" /\ CellsOf(pre.commands, last.process) = {})
    => IF last.result = "True"
       THEN /\ Cardinality(CellsOf(commands, last.process)) = last.quantity
            /\ inventory[last.process][last.t[1]]
                  = pre.inventory[last.process][last.t[1]] - last.quantity
            /\ inventory[last.process + 1][last.t[1]]
                  = pre.inventory[last.process + 1][last.t[1]] + last.quantity
       ELSE Ledger(Self) = Ledger(pre)

\* C5: a successful schedule of `quantity` units of cost c lowers the wallet
\* by quantity * c from the chosen step on and leaves it unchanged before.
C5_WalletLowerByQuantityTimesCost ==
    Returned("schedule", "True")
    => \A s \in Steps :
          wallet[s] = IF s >= last.t[1]
                      THEN pre.wallet[s] - last.quantity * costs[last.process]
                      ELSE pre.wallet[s]

C7_DeleteKeepsTheLedger ==
    Returned("delete_bookmark", "True")
    => /\ bookmarks = SubSeq(pre.bookmarks, 1, Len(pre.bookmarks) - 1)
       /\ pre.bookmarks[Len(pre.bookmarks)].id = last.bookmark_id
       /\ Ledger(Self) = Ledger(pre)
       /\ reserved_inventory = pre.reserved_inventory
       /\ fixed_before = pre.fixed_before

\* A bookmark deleted over a ledger that differs from its snapshot in all
\* three arrays.
C7_Witness ==
    /\ Returned("delete_bookmark", "True")
    /\ LET b == pre.bookmarks[Len(pre.bookmarks)]
       IN  wallet # b.wallet /\ inventory # b.inventory /\ commands # b.commands

\* The step a mutator call is aimed at.
TargetStep(c) ==
    CASE c.op = "schedule" -> c.t[1]
      [] c.op = "order_production" -> c.steps[1]
      [] OTHER -> c.t

Mutators ==
    {"pay", "receive", "transport_to", "buy", "sell", "reserve",
     "order_production", "schedule", "set_state"}

\* C8: every mutator called with a step before fixed_before raises and
\* changes nothing.
C8_PastIsRejected ==
    (last.op \in Mutators /\ TargetStep(last) < pre.fixed_before)
    => (last.result = "ValueError" /\ Self = pre)

\* C9: a pay(amount, t) that succeeds with fixed_before <= t < n_steps lowers
\* wallet[s] by amount for every s >= t, leaves wallet[s] for s < t, the
\* inventory and the commands; receive(amount, t) does what pay(-amount, t)
\* does.
C9_PayReachesTheSuffix ==
    /\ (Returned("pay", "True") /\ pre.fixed_before <= last.t /\ last.t < NSteps)
       => /\ \A s \in Steps :
                wallet[s] = IF s >= last.t THEN pre.wallet[s] - last.payment
                            ELSE pre.wallet[s]
          /\ inventory = pre.inventory
          /\ commands = pre.commands
    /\ last.op = "receive"
       => /\ [sim |-> Self, result |-> last.result]
                = pay(pre, -last.payment, last.t, TRUE)
          /\ last.result = "True"
             => \A s \in Steps :
                   wallet[s] = IF s >= last.t THEN pre.wallet[s] + last.payment
                               ELSE pre.wallet[s]

\* A payment from the middle of an uneven wallet.
C9_Witness ==
    /\ Returned("pay", "True")
    /\ last.t = 1
    /\ pre.wallet[0] # pre.wallet[NSteps - 1]
    /\ wallet[0] = pre.wallet[0]
    /\ wallet[NSteps - 1] # pre.wallet[NSteps - 1]

\* wallet[s] - amount is below the bankruptcy limit at some step s >= t
Short(S, amount, t) ==
    \E s \in t .. (NSteps - 1) : S.wallet[s] - amount < bankruptcy_limit

\* C10: pay(amount, t, ignore_money_shortage = False) with t in the horizon
\* returns False with the wallet as before exactly when the least of
\* wallet[s] - amount over s >= t is below the bankruptcy limit, and returns
\* True otherwise.
C10_PayChecksTheShortage ==
    (/\ last.op = "pay"
     /\ ~last.ignore_money_shortage
     /\ pre.fixed_before <= last.t
     /\ last.t < NSteps)
    => IF Short(pre, last.payment, last.t)
       THEN last.result = "False" /\ wallet = pre.wallet
       ELSE last.result = "True" /\ wallet = AddFrom(pre.wallet, last.t, -last.payment)

\* A payment refused for a shortage at a later step than t.
C10_Witness ==
    /\ Returned("pay", "False")
    /\ ~last.ignore_money_shortage
    /\ last.t < NSteps
    /\ pre.wallet[last.t] - last.payment >= bankruptcy_limit

\* row[s] + d is negative at some step s >= t
Lacking(row, d, t) == \E s \in t .. (NSteps - 1) : row[s] + d < 0

\* row changed by d at every step from t on, and at no step before
Shifted(after, before, t, d) ==
    \A s \in Steps : after[s] = IF s >= t THEN before[s] + d ELSE before[s]

\* the rows of every product but one are as they were
OthersKept(product) ==
    \A p \in Products \ {product} : inventory[p] = pre.inventory[p]

\* C11: transport_to(product, quantity, t) with t in the horizon, when it
\* succeeds, adds quantity to inventory[product, s] for every s >= t and
\* changes no other inventory cell, no wallet cell and no command; with
\* ignore_inventory_shortage = False it returns False with the inventory as
\* before exactly when inventory[product, s] + quantity is negative at some
\* s >= t.
C11_TransportReachesTheSuffix ==
    (last.op = "transport_to" /\ pre.fixed_before <= last.t /\ last.t < NSteps)
    => /\ wallet = pre.wallet
       /\ commands = pre.commands
       /\ IF /\ ~last.ignore_inventory_shortage
             /\ Lacking(pre.inventory[last.product], last.quantity, last.t)
          THEN last.result = "False" /\ inventory = pre.inventory
          ELSE /\ last.result = "True"
               /\ Shifted(inventory[last.product], pre.inventory[last.product],
                          last.t, last.quantity)
               /\ OthersKept(last.product)

\* A transport refused for a shortage at a later step than t.
C11_Witness ==
    /\ Returned("transport_to", "False")
    /\ last.t < NSteps
    /\ pre.inventory[last.product][last.t] + last.quantity >= 0

\* C12: pay and transport_to raise when t < fixed_before and return False,
\* without raising, when t >= n_steps (and t is not before fixed_before);
\* wallet, inventory and commands are unchanged in both cases.
C12_PastRaisesBeyondFails ==
    last.op \in {"pay", "transport_to"}
    => /\ last.t < pre.fixed_before
          => (last.result = "ValueError" /\ Ledger(Self) = Ledger(pre))
       /\ (last.t >= NSteps /\ last.t >= pre.fixed_before)
          => (last.result = "False" /\ Ledger(Self) = Ledger(pre))

\* A transport into the fixed past, with stock there to take.
C12_Witness ==
    /\ last.op = "transport_to"
    /\ last.t < pre.fixed_before
    /\ last.result = "ValueError"
    /\ pre.inventory[last.product][last.t] + last.quantity >= 0

\* C13: a buy that returns False leaves wallet and inventory as they were; a
\* buy that returns True has lowered wallet[s] by price * quantity and raised
\* inventory[product, s] by quantity for every s >= t; a buy not aimed at the
\* past returns True exactly when its payment passes, whatever the inventory.
C13_BuyIsAllOrNothing ==
    (last.op = "buy" /\ ~Raised(last.result))
    => /\ last.result = "False"
          => (wallet = pre.wallet /\ inventory = pre.inventory)
       /\ last.result = "True"
          => /\ Shifted(wallet, pre.wallet, last.t, -(last.price * last.quantity))
             /\ Shifted(inventory[last.product], pre.inventory[last.product],
                        last.t, last.quantity)
             /\ OthersKept(last.product)
       /\ last.result = "True"
          <=> /\ last.t < NSteps
              /\ \/ last.ignore_money_shortage
                 \/ ~Short(pre, last.price * last.quantity, last.t)
       /\ commands = pre.commands

\* A buy refused for the money it would take at a step of the horizon.
C13_Witness ==
    /\ Returned("buy", "False")
    /\ last.t < NSteps
    /\ ~last.ignore_money_shortage
    /\ Short(pre, last.price * last.quantity, last.t)

Window(S, step) ==
    LET first == IF ~IsTuple(step) /\ step[1] = ANY_STEP THEN S.fixed_before + 1
                 ELSE Max2(S.fixed_before + 1, step[1])
        final == IF ~IsTuple(step)
                 THEN IF step[1] = ANY_STEP THEN NSteps - 1 ELSE Min2(step[1], NSteps - 1)
                 ELSE Min2(step[2], NSteps - 1)
    IN  first .. final

\* The lines a query may use.
LineFilter(line) == IF line = ANY_LINE THEN Lines ELSE {line} \cap Lines

\* The candidate cells of a query, as <<step, line>>: the cells of the window
\* and line filter that are idle, or all of them with override.
CandidateCells(S, step, line, override) ==
    {c \in Window(S, step) \X LineFilter(line) :
        override \/ S.commands[c[2]][c[1]] = NO_COMMAND}

\* A query for any line or for a line of the factory that returned normally.
Asked == last.op = "available_for_production" /\ last.result = "ok"
            /\ (last.line = ANY_LINE \/ last.line \in Lines)

\* The <<step, line>> pairs a query returned.
SlotsReturned ==
    {<<last.steps[k], last.lines[k]>> : k \in 1 .. Min2(Len(last.steps), Len(last.lines))}

\* C15: every step a query returns lies in fixed_before + 1 .. n_steps - 1
\* and in the requested step or range, every line it returns lies in
\* 0 .. n_lines - 1 and is the requested line when one was given, and a query
\* whose clipped range is empty returns nothing.
C15_SlotsLieInTheWindow ==
    Asked
    => /\ \A k \in 1 .. Len(last.steps) : last.steps[k] \in Window(pre, last.step)
       /\ \A k \in 1 .. Len(last.lines) : last.lines[k] \in LineFilter(last.line)
       /\ Window(pre, last.step) = {} => (last.steps = <<>> /\ last.lines = <<>>)

\* C16: a query with method latest and at least `repeats` candidate cells
\* returns exactly `repeats` slots, all candidates, and no candidate it left
\* out is later than one it returned.
C16_LatestReturnsTheLastRepeats ==
    (/\ Asked
     /\ last.method = "latest"
     /\ Cardinality(CandidateCells(pre, last.step, last.line, last.override)) >= last.repeats)
    => /\ Len(last.steps) = last.repeats
       /\ Len(last.lines) = last.repeats
       /\ Cardinality(SlotsReturned) = last.repeats
       /\ SlotsReturned \subseteq CandidateCells(pre, last.step, last.line, last.override)
       /\ \A c \in CandidateCells(pre, last.step, last.line, last.override) \ SlotsReturned :
             \A r \in SlotsReturned : c[1] <= r[1]

\* C17: a query with method earliest and at least `repeats` candidate cells
\* returns exactly `repeats` slots, all candidates, and no candidate it left
\* out has a step strictly smaller than one it returned.
C17_EarliestReturnsTheFirstRepeats ==
    (/\ Asked
     /\ last.method = "earliest"
     /\ Cardinality(CandidateCells(pre, last.step, last.line, last.override)) >= last.repeats)
    => /\ Len(last.steps) = last.repeats
       /\ Len(last.lines) = last.repeats
       /\ Cardinality(SlotsReturned) = last.repeats
       /\ SlotsReturned \subseteq CandidateCells(pre, last.step, last.line, last.override)
       /\ \A c \in CandidateCells(pre, last.step, last.line, last.override) \ SlotsReturned :
             \A r \in SlotsReturned : c[1] >= r[1]

\* C18: the two sequences a query returns have the same length, for a single
\* step or a range, any line or a given one, override on or off, any method.
C18_StepsAndLinesPairUp ==
    Asked => Len(last.steps) = Len(last.lines)

\* C19: a query with fewer candidate cells in its window and line filter than
\* `repeats` returns two empty sequences, whatever the method.
C19_TooFewCandidatesReturnNothing ==
    (/\ Asked
     /\ Cardinality(CandidateCells(pre, last.step, last.line, last.override)) < last.repeats)
    => (last.steps = <<>> /\ last.lines = <<>>)

\* C20: a query leaves wallet, inventory, commands, reserved inventory,
\* fixed_before and the bookmark stack as they were, whatever its arguments
\* and its outcome.
C20_QueryChangesNothing ==
    last.op = "available_for_production"
    => /\ Ledger(Self) = Ledger(pre)
       /\ reserved_inventory = pre.reserved_inventory
       /\ fixed_before = pre.fixed_before
       /\ bookmarks = pre.bookmarks
       /\ active_bookmark = pre.active_bookmark

\* A query that found slots on a simulator with a bookmark and a fixed past.
C20_Witness ==
    /\ last.op = "available_for_production"
    /\ Len(last.steps) >= 1
    /\ Len(last.lines) >= 1
    /\ Len(pre.bookmarks) >= 1
    /\ pre.fixed_before >= 1

\* C21: with override off every slot a query returns is a cell of the
\* factory whose command for that line at that step is NO_COMMAND; with
\* override on every cell of the window and line filter is a candidate, so a
\* query for all of them that has enough returns them all.
C21_OverrideDecidesTheCandidates ==
    Asked
    => /\ ~last.override
          => \A c \in SlotsReturned :
                /\ c[1] \in Steps
                /\ c[2] \in Lines
                /\ pre.commands[c[2]][c[1]] = NO_COMMAND
       /\ (/\ last.override
           /\ last.method = "all"
           /\ Cardinality(Window(pre, last.step) \X LineFilter(last.line)) >= last.repeats)
          => SlotsReturned = Window(pre, last.step) \X LineFilter(last.line)

\* C22: right after construction every command cell is NO_COMMAND, every
\* wallet cell is initial_balance, every product holds its initial inventory
\* at every step, fixed_before is 0 and the bookmark stack is empty.
C22_InitialLedger ==
    calls = 0
    => /\ \A l \in Lines : \A s \in Steps : commands[l][s] = NO_COMMAND
       /\ \A s \in Steps : wallet[s] = initial_balance
       /\ \E initial_inventory \in InitialInventories :
             \A p \in Products : \A s \in Steps : inventory[p][s] = initial_inventory[p]
       /\ fixed_before = 0
       /\ bookmarks = <<>>

\* C23: after set_state(t, ...) returns, fixed_before is t + 1.
C23_SetStateFixesThroughT ==
    Returned("set_state", "None") => fixed_before = last.t + 1

\* C24: after set_state(t, inv, w, cmds), wallet[t] = w and inventory[p, t] =
\* inv[p]; every later step is shifted by the change made at t, every earlier
\* step is unchanged; the commands of step t are cmds and no other command
\* cell changes.
C24_SetStateShiftsTheSuffix ==
    Returned("set_state", "None")
    => /\ wallet[last.t] = last.wallet
       /\ Shifted(wallet, pre.wallet, last.t, last.wallet - pre.wallet[last.t])
       /\ \A p \in Products :
             /\ inventory[p][last.t] = last.inventory[p]
             /\ Shifted(inventory[p], pre.inventory[p], last.t,
                        last.inventory[p] - pre.inventory[p][last.t])
       /\ \A l \in Lines : \A s \in Steps :
             commands[l][s] = IF s = last.t THEN last.commands[l] ELSE pre.commands[l][s]

\* A state set in the middle of an uneven wallet and inventory.
C24_Witness ==
    /\ Returned("set_state", "None")
    /\ last.t >= 1
    /\ wallet[NSteps - 1] # wallet[last.t]
    /\ wallet[NSteps - 1] # pre.wallet[NSteps - 1]
    /\ commands # pre.commands

C28_ScheduleChecksEachUnit ==
    last.op = "schedule"
    => /\ ~last.ignore_inventory_shortage
          => \A s \in Steps :
                pre.inventory[last.process][s] >= 0 => inventory[last.process][s] >= 0
       /\ (last.result = "True" /\ ~last.ignore_money_shortage)
          => \A s \in Steps :
                inventory[last.process][s] < pre.inventory[last.process][s]
                => wallet[s] >= 0

\* A schedule that committed the units in stock and passed over the
\* candidates left when the stock ran out.
C28_Witness ==
    /\ Returned("schedule", "True")
    /\ ~last.ignore_inventory_shortage
    /\ \E s \in Steps :
          /\ pre.inventory[last.process][s] >= 1
          /\ inventory[last.process][s] = 0
    /\ UnitsCommitted(pre, last)
          < Len(available_for_production(pre, last.quantity, last.t, last.line,
                                         last.override, "all").steps)

\* C29: the wallet, inventory and commands of every step before fixed_before
\* are left as they are by every operation, rollback to a bookmark taken
\* before the history was fixed included.
C29_FixedHistoryIsKept ==
    \A s \in Steps :
        s < pre.fixed_before
        => /\ wallet[s] = pre.wallet[s]
           /\ \A p \in Products : inventory[p][s] = pre.inventory[p][s]
           /\ \A l \in Lines : commands[l][s] = pre.commands[l][s]

\* C30: no operation lowers fixed_before.
C30_FixedBeforeNeverDecreases ==
    fixed_before >= pre.fixed_before

\* What the program keeps of a bookmark.
Stored(b) == [id |-> b.id, wallet |-> b.wallet, inventory |-> b.inventory,
              commands |-> b.commands]

\* C26: when a temporary_transaction block is left normally, wallet,
\* inventory and commands are what they were on entry, whatever the body
\* did, and the bookmark stack is as deep and holds what it held.
C26_TemporaryScopeRestores ==
    Returned("temporary_transaction", "None")
    => /\ Ledger(Self) = Ledger(pre)
       /\ Len(bookmarks) = Len(pre.bookmarks)
       /\ \A k \in 1 .. Len(pre.bookmarks) :
             Stored(bookmarks[k]) = Stored(pre.bookmarks[k])

\* C27: however a transaction or temporary_transaction block or a schedule
\* call is left, by an error included, the bookmark it took is off the stack:
\* the stack is as deep as on entry.
C27_ScopesResolveTheirBookmark ==
    last.op \in {"transaction", "temporary_transaction", "schedule"}
    => Len(bookmarks) = Len(pre.bookmarks)

\* C31: a bookmark id that delete_bookmark has resolved is rejected, by an
\* error, by every later rollback and delete_bookmark call; the bookmarks on
\* the stack have pairwise distinct ids, and the active bookmark is the last
\* one pushed and not yet deleted.
C31_IdsIdentifyOneBookmark ==
    /\ (last.op \in {"rollback", "delete_bookmark"} /\ last.bookmark_id \in resolved)
          => Raised(last.result)
    /\ \A j, k \in 1 .. Len(bookmarks) : j # k => bookmarks[j].id # bookmarks[k].id
    /\ active_bookmark = Len(bookmarks)

\* A pay or buy call that looks for a money shortage.
ShortageChecked ==
    last.op \in {"pay", "buy"} /\ ~last.ignore_money_shortage

\* C32: is_bankrupt() is true exactly when some step's balance is below the
\* bankruptcy limit, and a pay or buy call made with ignore_money_shortage
\* false on a simulator that is not bankrupt leaves it not bankrupt, whether
\* the call succeeded, failed or raised.
C32_CheckedPaymentsNeverBankrupt ==
    /\ is_bankrupt(Self) <=> (\E s \in Steps : wallet[s] < bankruptcy_limit)
    /\ (ShortageChecked /\ ~is_bankrupt(pre)) => ~is_bankrupt(Self)

\* a checked payment went through at a step where an earlier unchecked one
\* had left less money than at the steps before it, and a checked one was
\* refused
C32_Witness ==
    /\ ShortageChecked /\ ~is_bankrupt(pre)
    /\ \/ /\ last.result = "True"
          /\ wallet # pre.wallet
          /\ \E s \in Steps : pre.wallet[s] < initial_balance
       \/ /\ last.result = "False"
          /\ last.t < NSteps

\* The calls of a body that are to the operation op.
CallsTo(body, op) == {k \in 1 .. Len(body) : body[k].op = op}

\* C33: rollback(id) leaves reserved_inventory and fixed_before as they are
\* when it is called, so the reservations and the history fixes made after
\* bookmark() are still there after the rollback, and those made in the body
\* of a temporary_transaction block are still there when the block is left.
C33_RollbackKeepsReservationsAndFixes ==
    /\ last.op = "rollback"
          => /\ reserved_inventory = pre.reserved_inventory
             /\ fixed_before = pre.fixed_before
    /\ Returned("temporary_transaction", "None")
          => /\ reserved_inventory =
                   [pre.reserved_inventory EXCEPT
                       ![0][1] = @ + Cardinality(CallsTo(last.body, "reserve"))]
             /\ fixed_before = IF CallsTo(last.body, "fix_before") # {}
                               THEN 1 ELSE pre.fixed_before

\* a block whose body reserved and fixed the history was left
C33_Witness ==
    /\ Returned("temporary_transaction", "None")
    /\ CallsTo(last.body, "reserve") # {}
    /\ CallsTo(last.body, "fix_before") # {}
    /\ pre.fixed_before = 0

\* C34: at every step the total inventory over all products is the same
\* after a schedule call as before it, whether the call succeeded, failed or
\* raised: a committed unit takes one unit of product `process` and gives one
\* unit of product `process + 1` at the same step.
C34_ScheduleConservesStock ==
    last.op = "schedule"
    => \A s \in Steps : total_inventory_at(Self, s) = total_inventory_at(pre, s)

\* a schedule call committed its units and returned True
C34_Witness ==
    /\ Returned("schedule", "True")
    /\ inventory # pre.inventory
    /\ \E s \in Steps :
          /\ inventory[last.process][s] = pre.inventory[last.process][s] - last.quantity
          /\ inventory[last.process + 1][s] = pre.inventory[last.process + 1][s] + last.quantity

=============================================================================
